---- MODULE Spec2Model ----
(***************************************************************************)
(* NMEA GPS viewer (src/src/main.rs): the UI thread's update handler, the  *)
(* ingestion thread it spawns, and the mutex-guarded AppState they share.  *)
(*                                                                         *)
(* Text is modelled as sequences of one-character strings.  The alphabet   *)
(* of the model is the digits, "+", "-", ",", "$", "*", CR, LF, the        *)
(* letters G P S V L A x, and one byte (0xFF) that is not valid UTF-8.     *)
(***************************************************************************)
EXTENDS Integers, Sequences, FiniteSets, TLC

\* ------------------------------------------------------------------ bounds

\* Thread slots available to thread::spawn.
MaxThreads == 2
\* Largest number of comma-separated fields of a generated sentence.
MaxFields == 12
\* Number of one-character lines in the long burst (2 bytes each).
BigLines == 501

\* --------------------------------------------------------- program constants

\* let mut buf = [0u8; 1024]
BufSize == 1024
\* if st.nmea_log.len() > 500
LogCap == 500
\* strength: u8
U8Max == 255

\* ---------------------------------------------------------------- state

VARIABLES
    selected_port,      \* AppState.selected_port: NoPort or a port name
    is_reading,         \* AppState.is_reading
    satellites,         \* AppState.satellites
    nmea_log,           \* AppState.nmea_log
    lock,               \* holder of the Mutex<AppState>: Free, UiThread or Thread(t)
    ui,                 \* position of the UI thread inside update()
    pc,                 \* position of each ingestion thread
    port_name,          \* the port name each thread was spawned with
    port,               \* each thread's result of open(): "unset", "Ok", "Err"
    data,               \* each thread's lossily decoded text of the current read
    line,               \* each thread's loop variable of `for line in data.lines()`
    rest,               \* each thread's lines the iterator has still to yield
    local_satellites,   \* each thread's per-cycle `satellites` vector
    wire,               \* the device: bursts of bytes it has still to deliver
    stream,             \* history: every byte returned by a read, in order
    reads,              \* history: the bytes of each read that returned Ok, in order
    arrived             \* history: every line pushed to nmea_log, in order

vars == <<selected_port, is_reading, satellites, nmea_log, lock, ui, pc,
          port_name, port, data, line, rest, local_satellites, wire, stream, reads,
          arrived>>

shared == <<selected_port, is_reading, satellites, nmea_log>>
locals == <<port_name, port, data, line, rest, local_satellites>>

Threads == 1..MaxThreads
\* Holders of the mutex.
Free == <<"free">>
UiThread == <<"ui">>
Thread(t) == <<"thread", t>>
NoPort == "None"
\* AppState.ports, as available_ports() returned it.
Ports == {"COM1", "COM2"}

\* ------------------------------------------------------------------ text

LF == "\n"
CR == "\r"
\* A byte that can appear in no UTF-8 encoding, and U+FFFD that replaces it.
BadByte == "xFF"
Replacement == "uFFFD"

DigitChars == <<"0", "1", "2", "3", "4", "5", "6", "7", "8", "9">>

IsDigit(c) == \E i \in 1..10 : DigitChars[i] = c

DigitValue(c) == (CHOOSE i \in 1..10 : DigitChars[i] = c) - 1

Min(a, b) == IF a < b THEN a ELSE b

\* String::from_utf8_lossy(&buf[..n])
FromUtf8Lossy(bytes) ==
    [i \in 1..Len(bytes) |-> IF bytes[i] = BadByte THEN Replacement ELSE bytes[i]]

\* str::starts_with
StartsWith(s, prefix) ==
    /\ Len(s) >= Len(prefix)
    /\ \A i \in 1..Len(prefix) : s[i] = prefix[i]

\* Index of the first c in s, 0 when there is none.
Find(s, c) ==
    IF \E i \in 1..Len(s) : s[i] = c
    THEN CHOOSE i \in 1..Len(s) : s[i] = c /\ \A j \in 1..(i - 1) : s[j] # c
    ELSE 0

\* str::split(','): the fields between separators, empty ones included.
RECURSIVE Split(_, _)
Split(s, sep) ==
    LET i == Find(s, sep)
    IN  IF i = 0 THEN <<s>>
        ELSE <<SubSeq(s, 1, i - 1)>> \o Split(SubSeq(s, i + 1, Len(s)), sep)

\* One item of str::lines(), given the text before the line feed: a carriage
\* return right before the line feed belongs to the line ending.
StripCR(s) ==
    IF Len(s) > 0 /\ s[Len(s)] = CR THEN SubSeq(s, 1, Len(s) - 1) ELSE s

\* str::lines(): split after each line feed; a last piece without a line feed
\* is yielded as it stands, and an empty last piece is not yielded.  A text
\* with a line feed before its end is cut after the one nearest its middle,
\* which yields the same pieces as cutting from the left and keeps the
\* evaluation shallow.
RECURSIVE Lines(_)
Lines(s) ==
    LET inner == {i \in 1..(Len(s) - 1) : s[i] = LF}
        mid == (Len(s) + 1) \div 2
        Dist(i) == IF i < mid THEN mid - i ELSE i - mid
    IN  IF s = <<>> THEN <<>>
        ELSE IF inner = {}
             THEN IF s[Len(s)] = LF
                  THEN <<StripCR(SubSeq(s, 1, Len(s) - 1))>>
                  ELSE <<s>>
        ELSE LET m == CHOOSE i \in inner : \A j \in inner : Dist(i) <= Dist(j)
             IN  Lines(SubSeq(s, 1, m)) \o Lines(SubSeq(s, m + 1, Len(s)))

\* Value of a string of decimal digits.
RECURSIVE DecimalValue(_)
DecimalValue(ds) ==
    IF ds = <<>> THEN 0
    ELSE 10 * DecimalValue(SubSeq(ds, 1, Len(ds) - 1)) + DigitValue(ds[Len(ds)])

AllDigits(s) == Len(s) > 0 /\ \A i \in 1..Len(s) : IsDigit(s[i])

\* str::parse::<f64>() over the model's alphabet (no ".", no exponent, none of
\* the letters of "inf" or "nan"): an optional sign, then one or more digits.
\* The value is the integer read; the model's fields are short enough for f64
\* to hold it exactly.
ParseF64(s) ==
    IF AllDigits(s) THEN [ok |-> TRUE, val |-> DecimalValue(s)]
    ELSE IF Len(s) > 1 /\ s[1] = "+" /\ AllDigits(Tail(s))
         THEN [ok |-> TRUE, val |-> DecimalValue(Tail(s))]
    ELSE IF Len(s) > 1 /\ s[1] = "-" /\ AllDigits(Tail(s))
         THEN [ok |-> TRUE, val |-> 0 - DecimalValue(Tail(s))]
    ELSE [ok |-> FALSE, val |-> 0]

\* Mutant: the value is not checked against the range of u8.
ParseU8_NoRangeCheck(s) ==
    LET ds == IF Len(s) > 1 /\ s[1] = "+" THEN Tail(s) ELSE s
    IN  IF AllDigits(ds)
        THEN [ok |-> TRUE, val |-> DecimalValue(ds)]
        ELSE [ok |-> FALSE, val |-> 0]

\* str::parse::<u8>(): an optional "+", then one or more digits, at most 255.
ParseU8(s) ==
    LET ds == IF Len(s) > 1 /\ s[1] = "+" THEN Tail(s) ELSE s
    IN  IF AllDigits(ds) /\ DecimalValue(ds) <= U8Max
        THEN [ok |-> TRUE, val |-> DecimalValue(ds)]
        ELSE [ok |-> FALSE, val |-> 0]

\* Result::unwrap_or
UnwrapOr(r, default) == IF r.ok THEN r.val ELSE default

\* ------------------------------------------------------------ GSV decoding

\* struct Satellite { id, latitude, longitude, strength }
Satellite(id, latitude, longitude, strength) ==
    [id |-> id, latitude |-> latitude, longitude |-> longitude,
     strength |-> strength]

GPGSV == <<"$", "G", "P", "G", "S", "V">>

\* Mutant: "$", any two characters, then "GSV".
IsGsvSentence_AnyTalker(l) ==
    Len(l) >= 6 /\ l[1] = "$" /\ SubSeq(l, 4, 6) = <<"G", "S", "V">>

\* line.starts_with("$GPGSV")
IsGsvSentence(l) == StartsWith(l, GPGSV)

\* Mutant: the loop stops one field early.
GsvLoopCond_OneShort(i, n) == i + 4 < n

\* while i + 3 < fields.len()
GsvLoopCond(i, n) == i + 3 < n

\* The record pushed for the group at (0-based) field index i.
GsvRecord(fields, i) ==
    Satellite(fields[i + 1],
              UnwrapOr(ParseF64(fields[i + 2]), 0),
              UnwrapOr(ParseF64(fields[i + 3]), 0),
              UnwrapOr(ParseU8(fields[i + 4]), 0))

\* The while loop over the groups, from (0-based) field index i on.
RECURSIVE GsvLoop(_, _)
GsvLoop(fields, i) ==
    IF GsvLoopCond(i, Len(fields))
    THEN <<GsvRecord(fields, i)>> \o GsvLoop(fields, i + 4)
    ELSE <<>>

\* What one line adds to the per-cycle vector: `let mut i = 4` and the loop,
\* for a line that passes the prefix test; nothing otherwise.
ParseLine(l) ==
    IF IsGsvSentence(l) THEN GsvLoop(Split(l, ","), 4) ELSE <<>>

\* ------------------------------------------------------------ shared state

\* Mutant: the line is inserted at the front of the log.
PushLine_AtFront(log, l) == <<l>> \o log

\* st.nmea_log.push(line.to_string())
PushLine(log, l) == Append(log, l)

\* Mutant: the log is never trimmed.
TrimLog_Never(log) == log

\* if st.nmea_log.len() > 500 { st.nmea_log.remove(0); }
TrimLog(log) == IF Len(log) > LogCap THEN Tail(log) ELSE log

\* Mutant: the per-cycle vector is kept from the cycle before.
NewCycleSatellites_CarriedOver(previous) == previous

\* let mut satellites = Vec::new()
NewCycleSatellites(previous) == <<>>

\* Mutant: the cycle's records are added to the snapshot.
AssignSatellites_Merged(current, new) == current \o new

\* st.satellites = satellites
AssignSatellites(current, new) == new

\* Mutant: the button starts a loop whether or not one is marked as reading.
StartPermitted_NoIdleCheck(clicked) == clicked

\* ui.button("Start Reading").clicked() && !state.is_reading
StartPermitted(clicked) == clicked /\ ~is_reading

\* --------------------------------------------------------------- the device

GLGSV == <<"$", "G", "L", "G", "S", "V">>
GAGSV == <<"$", "G", "A", "G", "S", "V">>
GPGGA == <<"$", "G", "P", "G", "G", "A">>

\* Field texts the generated sentences are made of.
TestFields ==
    << <<"0", "1">>, <<"0", "5">>, <<"0", "3", "0">>, <<"2", "0">>,
       <<"x">>, <<>>, <<"3", "0", "0">>, <<"-", "5">>,
       <<"2", "0", "*", "7", "A">> >>

Headers == {GPGSV, GLGSV, GPGGA}

RECURSIVE Join(_)
Join(fields) ==
    IF Len(fields) = 0 THEN <<>>
    ELSE IF Len(fields) = 1 THEN fields[1]
    ELSE fields[1] \o <<",">> \o Join(Tail(fields))

\* A sentence of n fields: the header, then the test fields taken in turn
\* from the v-th on.
Sentence(h, n, v) ==
    Join([k \in 1..n |->
            IF k = 1 THEN h
            ELSE TestFields[((k + v) % Len(TestFields)) + 1]])

GeneratedBursts ==
    {Sentence(h, n, v) \o <<CR, LF>> :
        h \in Headers, n \in 1..MaxFields, v \in 0..(Len(TestFields) - 1)}

\* "$GPGSV,3,1,11"  and  ",01,05,30,20\r\n"
SplitHead == GPGSV \o <<",", "3", ",", "1", ",", "1", "1">>
SplitTail == <<",", "0", "1", ",", "0", "5", ",", "3", "0", ",", "2", "0", CR, LF>>

\* "$GPGSV,3,1,11,01,05,030,20,02,10,040,25\n"
TwoGroups ==
    GPGSV \o <<",", "3", ",", "1", ",", "1", "1",
               ",", "0", "1", ",", "0", "5", ",", "0", "3", "0", ",", "2", "0",
               ",", "0", "2", ",", "1", "0", ",", "0", "4", "0", ",", "2", "5", LF>>

\* "$GAGSV,1,1,01,07,40,090,33\r\n"
GalileoLine ==
    GAGSV \o <<",", "1", ",", "1", ",", "0", "1",
               ",", "0", "7", ",", "4", "0", ",", "0", "9", "0", ",", "3", "3", CR, LF>>

\* "$GPGSV,3,1,11,01,x,030,20,02,10,040,25\r\n"
LenientLine ==
    GPGSV \o <<",", "3", ",", "1", ",", "1", "1",
               ",", "0", "1", ",", "x", ",", "0", "3", "0", ",", "2", "0",
               ",", "0", "2", ",", "1", "0", ",", "0", "4", "0", ",", "2", "5", CR, LF>>

\* "$GPGSV,1,1,01,01,05,030,20*7A\r\n"
ChecksumLine ==
    GPGSV \o <<",", "1", ",", "1", ",", "0", "1",
               ",", "0", "1", ",", "0", "5", ",", "0", "3", "0",
               ",", "2", "0", "*", "7", "A", CR, LF>>

\* "$GPGGA,1\n"
FixLine == GPGGA \o <<",", "1", LF>>

\* Line noise: an invalid byte inside a line.
NoiseLine == <<BadByte, "x", LF>>

HandBursts ==
    { <<SplitHead, SplitTail>>,
      <<SplitHead \o SplitTail>>,
      <<TwoGroups, FixLine>>,
      <<LenientLine>>,
      <<TwoGroups, LenientLine>>,
      <<ChecksumLine>>,
      <<TwoGroups \o GalileoLine, FixLine \o NoiseLine>>,
      <<FixLine \o TwoGroups \o SplitHead, <<>>, TwoGroups>>,
      <<TwoGroups \o <<CR>>, <<LF>> \o FixLine>> }

\* What the device may deliver during a session: one generated sentence, or
\* one of the hand-written delivery schedules.
Schedules == {<<b>> : b \in GeneratedBursts} \cup HandBursts

\* n lines of one digit each, "1\n2\n3\n...", in a single burst.
DigitLines(n) ==
    [k \in 1..(2 * n) |->
        IF k % 2 = 1 THEN DigitChars[(((k + 1) \div 2) % 10) + 1] ELSE LF]

LongSchedules == { <<DigitLines(BigLines), TwoGroups \o FixLine>> }

\* ------------------------------------------------------------------ Init

InitWith(schedules) ==
    /\ selected_port = NoPort
    /\ is_reading = FALSE
    /\ satellites = <<>>
    /\ nmea_log = <<>>
    /\ lock = Free
    /\ ui = "idle"
    /\ pc = [t \in Threads |-> "unspawned"]
    /\ port_name = [t \in Threads |-> NoPort]
    /\ port = [t \in Threads |-> "unset"]
    /\ data = [t \in Threads |-> <<>>]
    /\ line = [t \in Threads |-> <<>>]
    /\ rest = [t \in Threads |-> <<>>]
    /\ local_satellites = [t \in Threads |-> <<>>]
    /\ wire \in schedules
    /\ stream = <<>>
    /\ reads = <<>>
    /\ arrived = <<>>

Init == InitWith(Schedules)

InitLong == InitWith(LongSchedules)

\* ------------------------------------------------------------ the UI thread

Unspawned == {t \in Threads : pc[t] = "unspawned"}

\* update(), from taking the lock to the end of the start handler's spawn:
\* the combo box may set selected_port (sel), the button may be clicked.
UiUpdate(sel, clicked) ==
    LET chosen == IF sel = NoPort THEN selected_port ELSE sel
        start == StartPermitted(clicked) /\ chosen # NoPort
    IN  /\ ui = "idle"
        /\ lock = Free
        /\ start => Unspawned # {}
        /\ lock' = UiThread
        /\ selected_port' = chosen
        /\ IF start
           THEN LET t == CHOOSE x \in Unspawned : \A y \in Unspawned : x <= y
                IN  /\ pc' = [pc EXCEPT ![t] = "open"]
                    /\ port_name' = [port_name EXCEPT ![t] = chosen]
                    /\ ui' = "spawned"
           ELSE /\ ui' = IF clicked THEN "refused" ELSE "render"
                /\ UNCHANGED <<pc, port_name>>
        /\ UNCHANGED <<is_reading, satellites, nmea_log, port, data, line, rest,
                       local_satellites, wire, stream, reads, arrived>>

\* Mutant: the frame sets is_reading whether or not it spawned a loop.
UiFinish_AlwaysSetsReading ==
    /\ ui # "idle"
    /\ is_reading' = TRUE
    /\ lock' = Free
    /\ ui' = "idle"
    /\ UNCHANGED <<selected_port, satellites, nmea_log, pc, wire, stream, reads, arrived>>
    /\ UNCHANGED locals

\* Mutant: the frame clears the snapshot when no loop was started in it.
UiFinish_ClearsSnapshot ==
    /\ ui # "idle"
    /\ is_reading' = (is_reading \/ ui = "spawned")
    /\ satellites' = IF ui = "spawned" THEN satellites ELSE <<>>
    /\ lock' = Free
    /\ ui' = "idle"
    /\ UNCHANGED <<selected_port, nmea_log, pc, wire, stream, reads, arrived>>
    /\ UNCHANGED locals

\* The rest of update(): state.is_reading = true after a spawn, the panels
\* that read state.satellites and state.nmea_log, and the guard's drop.
UiFinish ==
    /\ ui # "idle"
    /\ is_reading' = (is_reading \/ ui = "spawned")
    /\ lock' = Free
    /\ ui' = "idle"
    /\ UNCHANGED <<selected_port, satellites, nmea_log, pc, wire, stream, reads, arrived>>
    /\ UNCHANGED locals

\* ------------------------------------------------------ the ingestion thread

\* Mutant: a failed open clears is_reading.
Open_FailureClearsFlag(t, ok) ==
    /\ pc[t] = "open"
    /\ port' = [port EXCEPT ![t] = IF ok THEN "Ok" ELSE "Err"]
    /\ pc' = [pc EXCEPT ![t] = IF ok THEN "read" ELSE "done"]
    /\ is_reading' = (ok /\ is_reading)
    /\ UNCHANGED <<selected_port, satellites, nmea_log>>
    /\ UNCHANGED <<lock, ui, port_name, data, line, rest, local_satellites,
                   wire, stream, reads, arrived>>

\* serialport::new(port_name, 9600).timeout(..).open()
Open(t, ok) ==
    /\ pc[t] = "open"
    /\ port' = [port EXCEPT ![t] = IF ok THEN "Ok" ELSE "Err"]
    /\ pc' = [pc EXCEPT ![t] = IF ok THEN "read" ELSE "done"]
    /\ UNCHANGED <<lock, ui, port_name, data, line, rest, local_satellites,
                   wire, stream, reads, arrived>>
    /\ UNCHANGED shared

\* serial.read(&mut buf) returning Ok(n): up to BufSize bytes of the burst at
\* hand; the text is decoded, the per-cycle vector created, the line iterator
\* started.
ReadOk(t) ==
    /\ pc[t] = "read"
    /\ wire # <<>>
    /\ LET burst == Head(wire)
           n == Min(Len(burst), BufSize)
           text == FromUtf8Lossy(SubSeq(burst, 1, n))
           ls == Lines(text)
       IN  /\ wire' = IF n = Len(burst) THEN Tail(wire)
                      ELSE <<SubSeq(burst, n + 1, Len(burst))>> \o Tail(wire)
           /\ stream' = stream \o SubSeq(burst, 1, n)
           /\ reads' = Append(reads, SubSeq(burst, 1, n))
           /\ data' = [data EXCEPT ![t] = text]
           /\ local_satellites' =
                [local_satellites EXCEPT ![t] = NewCycleSatellites(@)]
           /\ IF ls = <<>>
              THEN /\ pc' = [pc EXCEPT ![t] = "update"]
                   /\ UNCHANGED <<line, rest>>
              ELSE /\ pc' = [pc EXCEPT ![t] = "push"]
                   /\ line' = [line EXCEPT ![t] = Head(ls)]
                   /\ rest' = [rest EXCEPT ![t] = Tail(ls)]
    /\ UNCHANGED <<lock, ui, port_name, port, arrived>>
    /\ UNCHANGED shared

\* Mutant: a failed read makes the thread open the port again.
ReadErr_Reconnects(t) ==
    /\ pc[t] = "read"
    /\ pc' = [pc EXCEPT ![t] = "open"]
    /\ UNCHANGED <<lock, ui, wire, stream, reads, arrived>>
    /\ UNCHANGED shared
    /\ UNCHANGED locals

\* Mutant: a failed read resets the session: the log, the snapshot, the flag.
ReadErr_ResetsSession(t) ==
    /\ pc[t] = "read"
    /\ pc' = [pc EXCEPT ![t] = "done"]
    /\ satellites' = <<>>
    /\ nmea_log' = <<>>
    /\ is_reading' = FALSE
    /\ UNCHANGED <<selected_port, lock, ui, wire, stream, reads, arrived>>
    /\ UNCHANGED locals

\* Mutant: a failed read clears the snapshot before the loop exits.
ReadErr_ClearsSnapshot(t) ==
    /\ pc[t] = "read"
    /\ pc' = [pc EXCEPT ![t] = "done"]
    /\ satellites' = <<>>
    /\ UNCHANGED <<selected_port, is_reading, nmea_log, lock, ui, wire, stream, reads,
                   arrived>>
    /\ UNCHANGED locals

\* serial.read(&mut buf) returning Err(_) (a timeout included): break.
ReadErr(t) ==
    /\ pc[t] = "read"
    /\ pc' = [pc EXCEPT ![t] = "done"]
    /\ UNCHANGED <<lock, ui, wire, stream, reads, arrived>>
    /\ UNCHANGED shared
    /\ UNCHANGED locals

\* state_clone.lock() and st.nmea_log.push(line.to_string())
Push(t) ==
    /\ pc[t] = "push"
    /\ lock = Free
    /\ lock' = Thread(t)
    /\ nmea_log' = PushLine(nmea_log, line[t])
    /\ arrived' = Append(arrived, line[t])
    /\ pc' = [pc EXCEPT ![t] = "trim"]
    /\ UNCHANGED <<selected_port, is_reading, satellites, ui, wire, stream, reads>>
    /\ UNCHANGED locals

\* Mutant: the guard is not dropped at the end of the block.
Trim_KeepsLock(t) ==
    /\ pc[t] = "trim"
    /\ nmea_log' = TrimLog(nmea_log)
    /\ pc' = [pc EXCEPT ![t] = "parse"]
    /\ UNCHANGED <<selected_port, is_reading, satellites, lock, ui, wire, stream,
                   reads, arrived>>
    /\ UNCHANGED locals

\* The trim of the log and the end of the block, where the guard is dropped.
Trim(t) ==
    /\ pc[t] = "trim"
    /\ nmea_log' = TrimLog(nmea_log)
    /\ lock' = Free
    /\ pc' = [pc EXCEPT ![t] = "parse"]
    /\ UNCHANGED <<selected_port, is_reading, satellites, ui, wire, stream, reads, arrived>>
    /\ UNCHANGED locals

\* Mutant: the snapshot is replaced after every line.
Parse_PublishesEachLine(t) ==
    /\ pc[t] = "parse"
    /\ local_satellites' =
         [local_satellites EXCEPT ![t] = @ \o ParseLine(line[t])]
    /\ satellites' = local_satellites'[t]
    /\ IF rest[t] = <<>>
       THEN /\ pc' = [pc EXCEPT ![t] = "update"]
            /\ UNCHANGED <<line, rest>>
       ELSE /\ pc' = [pc EXCEPT ![t] = "push"]
            /\ line' = [line EXCEPT ![t] = Head(rest[t])]
            /\ rest' = [rest EXCEPT ![t] = Tail(rest[t])]
    /\ UNCHANGED <<lock, ui, port_name, port, data, wire, stream, reads, arrived>>
    /\ UNCHANGED <<selected_port, is_reading, nmea_log>>

\* "Parse GSV" for the line at hand, then the iterator's next line.
Parse(t) ==
    /\ pc[t] = "parse"
    /\ local_satellites' =
         [local_satellites EXCEPT ![t] = @ \o ParseLine(line[t])]
    /\ IF rest[t] = <<>>
       THEN /\ pc' = [pc EXCEPT ![t] = "update"]
            /\ UNCHANGED <<line, rest>>
       ELSE /\ pc' = [pc EXCEPT ![t] = "push"]
            /\ line' = [line EXCEPT ![t] = Head(rest[t])]
            /\ rest' = [rest EXCEPT ![t] = Tail(rest[t])]
    /\ UNCHANGED <<lock, ui, port_name, port, data, wire, stream, reads, arrived>>
    /\ UNCHANGED shared

\* let mut st = state_clone.lock().unwrap()  (after the for loop)
UpdateLock(t) ==
    /\ pc[t] = "update"
    /\ lock = Free
    /\ lock' = Thread(t)
    /\ pc' = [pc EXCEPT ![t] = "assign"]
    /\ UNCHANGED <<ui, wire, stream, reads, arrived>>
    /\ UNCHANGED shared
    /\ UNCHANGED locals

\* st.satellites = satellites, and the guard's drop at the end of the arm.
Assign(t) ==
    /\ pc[t] = "assign"
    /\ satellites' = AssignSatellites(satellites, local_satellites[t])
    /\ lock' = Free
    /\ pc' = [pc EXCEPT ![t] = "sleep"]
    /\ UNCHANGED <<selected_port, is_reading, nmea_log, ui, wire, stream, reads, arrived>>
    /\ UNCHANGED locals

\* Mutant: after the pause the loop exits when another port is selected.
Sleep_StopsOnPortChange(t) ==
    /\ pc[t] = "sleep"
    /\ pc' = [pc EXCEPT ![t] =
                IF selected_port # port_name[t] THEN "done" ELSE "read"]
    /\ UNCHANGED <<lock, ui, wire, stream, reads, arrived>>
    /\ UNCHANGED shared
    /\ UNCHANGED locals

\* thread::sleep(Duration::from_millis(200)), then the next turn of the loop.
Sleep(t) ==
    /\ pc[t] = "sleep"
    /\ pc' = [pc EXCEPT ![t] = "read"]
    /\ UNCHANGED <<lock, ui, wire, stream, reads, arrived>>
    /\ UNCHANGED shared
    /\ UNCHANGED locals

\* ------------------------------------------------------------------ Next

Next ==
    \/ \E sel \in Ports \cup {NoPort}, clicked \in BOOLEAN : UiUpdate(sel, clicked)
    \/ UiFinish
    \/ \E t \in Threads, ok \in BOOLEAN : Open(t, ok)
    \/ \E t \in Threads : ReadOk(t)
    \/ \E t \in Threads : ReadErr(t)
    \/ \E t \in Threads : Push(t)
    \/ \E t \in Threads : Trim(t)
    \/ \E t \in Threads : Parse(t)
    \/ \E t \in Threads : UpdateLock(t)
    \/ \E t \in Threads : Assign(t)
    \/ \E t \in Threads : Sleep(t)

Spec == Init /\ [][Next]_vars

\* The same program, with a device that delivers more lines than the log keeps.
SpecLong == InitLong /\ [][Next]_vars

\* The positions the loop's thread goes to from position p: the next
\* statement of the thread's code, by the branch taken.
Successors(p) ==
    CASE p = "open" -> {"read", "done"}
      [] p = "read" -> {"push", "update", "done"}
      [] p = "trim" -> {"parse"}
      [] p = "parse" -> {"push", "update"}
      [] p = "assign" -> {"sleep"}
      [] p = "sleep" -> {"read"}
      [] OTHER -> {}

\* Thread t, at a statement that does not wait for the lock, goes on to
\* its next statement.  Such a statement finishes by itself, open() and
\* read() after their timeouts at the latest, so that this step is
\* possible exactly when one of Open, ReadOk, ReadErr, Trim, Parse, Assign
\* or Sleep is.
Advances(t) ==
    \E p \in Successors(pc[t]) : pc' = [pc EXCEPT ![t] = p]

\* The program under fair scheduling.  A thread that is not waiting for the
\* lock goes on; a frame of the UI ends; a thread that waits for the lock
\* gets it (strong fairness), because the UI thread drops the lock at the
\* end of every frame and the event loop does not begin the next frame at
\* once.  Nothing obliges the UI to run another frame.
Fairness ==
    /\ WF_vars(UiFinish)
    /\ \A t \in Threads :
         /\ WF_pc(Advances(t))
         /\ SF_vars(Push(t) \/ UpdateLock(t))

SpecFair == Init /\ [][Next]_vars /\ Fairness

\* ================================================================ claims

Running == {t \in Threads : pc[t] \notin {"unspawned", "done"}}

ThreadHoldsLock == \E t \in Threads : lock = Thread(t)

\* The last n elements of s (all of s when it has fewer).
LastN(s, n) == IF Len(s) <= n THEN s ELSE SubSeq(s, Len(s) - n + 1, Len(s))

RECURSIVE Concat(_)
Concat(ss) ==
    IF Len(ss) = 0 THEN <<>>
    ELSE IF Len(ss) = 1 THEN ss[1]
    ELSE LET h == Len(ss) \div 2
         IN  Concat(SubSeq(ss, 1, h)) \o Concat(SubSeq(ss, h + 1, Len(ss)))

\* C1: at most one ingestion loop is running in any state, and a start that
\* was permitted has its flip of is_reading pending only while the UI thread
\* still holds the lock it made the idle check under.
C1_SingleLoop ==
    /\ Cardinality(Running) <= 1
    /\ ui = "spawned" => (lock = UiThread /\ ~is_reading)

\* A second start attempt, with a port selected, refused while the loop of
\* the first one runs.
C1_Witness ==
    /\ ui = "refused"
    /\ selected_port # NoPort
    /\ is_reading
    /\ Cardinality(Running) = 1

\* C2: in every state in which no ingestion thread holds the lock, the log
\* holds at most 500 lines.
C2_LogCap == ~ThreadHoldsLock => Len(nmea_log) <= LogCap

\* The UI thread reads a full log after more than 500 lines were appended.
C2_Witness ==
    /\ lock = UiThread
    /\ Len(arrived) > LogCap
    /\ Len(nmea_log) = LogCap

\* C3: the log a reader can observe is the last min(k, 500) of the k lines
\* appended so far, in arrival order; once the 501st line has been appended
\* its first line is the second line ever appended.
C3_Fifo ==
    ~ThreadHoldsLock =>
        /\ nmea_log = LastN(arrived, LogCap)
        /\ Len(arrived) = LogCap + 1 => nmea_log[1] = arrived[2]

\* The cap has just been exceeded for the first time and the oldest line is gone.
C3_Witness ==
    /\ ~ThreadHoldsLock
    /\ Len(arrived) = LogCap + 1
    /\ Len(nmea_log) = LogCap
    /\ arrived[1] # arrived[2]
    /\ nmea_log[1] = arrived[2]

\* The records of the lines of one read, line by line, in line order.
DecodeCycle(text) ==
    LET ls == Lines(text)
    IN  Concat([k \in 1..Len(ls) |-> ParseLine(ls[k])])

\* C4: when a read cycle has completed, the snapshot is the decode of that
\* cycle's read alone.
C4_SnapshotOfLastCycle ==
    \A t \in Threads : pc[t] = "sleep" => satellites = DecodeCycle(data[t])

\* A cycle without a GSV line has completed after a cycle that produced two
\* satellites, and the snapshot is empty.
C4_Witness ==
    \E t \in Threads :
        /\ pc[t] = "sleep"
        /\ Len(arrived) = 2
        /\ Len(ParseLine(arrived[1])) = 2
        /\ Lines(data[t]) = <<arrived[2]>>
        /\ ~IsGsvSentence(arrived[2])
        /\ satellites = <<>>

\* The bytes of s up to and including its last line feed.
CompletePart(s) ==
    LET ends == {i \in 1..Len(s) : s[i] = LF}
    IN  IF ends = {} THEN <<>>
        ELSE SubSeq(s, 1, CHOOSE i \in ends : \A j \in ends : j <= i)

\* C5: whatever the chunking, when a read cycle has completed the lines
\* produced so far are the complete lines of the bytes read so far; a
\* trailing partial line is held back until its line ending has been read.
C5_LineFraming ==
    \A t \in Threads :
        pc[t] = "sleep" => arrived = Lines(FromUtf8Lossy(CompletePart(stream)))

\* C6: after a failed open the loop is not streaming, nothing was logged or
\* published, and is_reading is false.
C6_OpenFailure ==
    \A t \in Threads :
        port[t] = "Err" =>
            /\ pc[t] = "done"
            /\ nmea_log = <<>>
            /\ satellites = <<>>
            /\ ~is_reading

\* C7: the step in which a read fails, and every step after it, leaves the
\* log and the snapshot as they were.
C7_ReadErrorKeepsState ==
    [][(\E t \in Threads : pc'[t] = "done" /\ port'[t] = "Ok")
          => (nmea_log' = nmea_log /\ satellites' = satellites)]_vars

\* The loop has stopped on a failed read with lines logged and satellites
\* published.
C7_Witness ==
    \E t \in Threads :
        /\ pc[t] = "done"
        /\ port[t] = "Ok"
        /\ nmea_log # <<>>
        /\ satellites # <<>>

\* Every line of the read at hand has been appended, in order, as the last
\* lines to arrive.
CycleLogged(t) ==
    LET ls == Lines(data[t]) IN LastN(arrived, Len(ls)) = ls

\* "$", any two-character talker ID, "GSV".
HasGsvIdentifier(l) ==
    Len(l) >= 6 /\ l[1] = "$" /\ l[4] = "G" /\ l[5] = "S" /\ l[6] = "V"

HasGpgsvPrefix(l) ==
    Len(l) >= 6 /\ SubSeq(l, 1, 6) = <<"$", "G", "P", "G", "S", "V">>

GroupCount(F) == IF F < 8 THEN 0 ELSE (F - 4) \div 4

\* The j-th record (j >= 0) of a sentence, from (0-based) fields 4+4j..7+4j.
ExpectedGroups(fields) ==
    LET n == GroupCount(Len(fields))
    IN  IF n = 0 THEN <<>>
        ELSE [r \in 1..n |->
                LET j == r - 1
                IN  Satellite(fields[(4 + 4 * j) + 1],
                              UnwrapOr(ParseF64(fields[(5 + 4 * j) + 1]), 0),
                              UnwrapOr(ParseF64(fields[(6 + 4 * j) + 1]), 0),
                              UnwrapOr(ParseU8(fields[(7 + 4 * j) + 1]), 0))]

\* C9: a decoded line of F fields yields max(0, floor((F - 4) / 4)) records,
\* the j-th from fields 4+4j, 5+4j, 6+4j, 7+4j.
C9_GroupsByIndex ==
    \A t \in Threads :
        pc[t] = "update" =>
            LET ls == Lines(data[t])
            IN  local_satellites[t] =
                    Concat([k \in 1..Len(ls) |->
                        IF IsGsvSentence(ls[k])
                        THEN ExpectedGroups(Split(ls[k], ",")) ELSE <<>>])

\* A sentence of 4 + 4 + 3 fields has been decoded into one record.
C9_Witness ==
    \E t \in Threads :
        /\ pc[t] = "update"
        /\ Lines(data[t]) = <<line[t]>>
        /\ IsGsvSentence(line[t])
        /\ Len(Split(line[t], ",")) = 11
        /\ Len(local_satellites[t]) = 1

\* The value Rust's parse::<f64>() gives each field text of the model's
\* sentences (<<"none">> where it fails), written out by hand.
F64Table(f) ==
    CASE f = <<"0", "1">> -> <<"ok", 1>>
      [] f = <<"0", "5">> -> <<"ok", 5>>
      [] f = <<"0", "3", "0">> -> <<"ok", 30>>
      [] f = <<"2", "0">> -> <<"ok", 20>>
      [] f = <<"3", "0", "0">> -> <<"ok", 300>>
      [] f = <<"-", "5">> -> <<"ok", 0 - 5>>
      [] f = <<"0", "2">> -> <<"ok", 2>>
      [] f = <<"1", "0">> -> <<"ok", 10>>
      [] f = <<"0", "4", "0">> -> <<"ok", 40>>
      [] f = <<"2", "5">> -> <<"ok", 25>>
      [] f = <<"3">> -> <<"ok", 3>>
      [] f = <<"1">> -> <<"ok", 1>>
      [] f = <<"1", "1">> -> <<"ok", 11>>
      [] f = <<"x">> -> <<"none">>
      [] f = <<>> -> <<"none">>
      [] f = <<"2", "0", "*", "7", "A">> -> <<"none">>
      [] OTHER -> <<"unlisted">>

\* The same for parse::<u8>().
U8Table(f) ==
    CASE f = <<"3", "0", "0">> -> <<"none">>
      [] f = <<"-", "5">> -> <<"none">>
      [] OTHER -> F64Table(f)

Listed(f) == F64Table(f) # <<"unlisted">>

OrZero(v) == IF v[1] = "ok" THEN v[2] ELSE 0

\* C10: the step that decodes a "$GPGSV" line keeps the loop streaming and
\* adds one record per full group, each numeric field being its value where
\* the text is a number of the field's type and zero where it is not.
C10_LenientParse ==
    [][\A t \in Threads :
         LET fields == Split(line[t], ",")
             n == GroupCount(Len(fields))
         IN  (/\ pc[t] = "parse"
              /\ pc'[t] # "parse"
              /\ IsGsvSentence(line[t])
              /\ \A k \in 5..Len(fields) : Listed(fields[k]))
             =>
             /\ pc'[t] \in {"push", "update"}
             /\ Len(local_satellites'[t]) = Len(local_satellites[t]) + n
             /\ \A r \in 1..n :
                  local_satellites'[t][Len(local_satellites[t]) + r] =
                    Satellite(fields[4 * r + 1],
                              OrZero(F64Table(fields[4 * r + 2])),
                              OrZero(F64Table(fields[4 * r + 3])),
                              OrZero(U8Table(fields[4 * r + 4])))]_vars

\* "$GPGSV,3,1,11,01,x,030,20,02,10,040,25" has been decoded: the first
\* record has elevation 0 and its other fields, and the second group follows.
C10_Witness ==
    \E t \in Threads :
        /\ pc[t] = "update"
        /\ Len(Split(line[t], ",")) = 12
        /\ Split(line[t], ",")[6] = <<"x">>
        /\ local_satellites[t] =
             << Satellite(<<"0", "1">>, 0, 30, 20),
                Satellite(<<"0", "2">>, 10, 40, 25) >>

\* Some thread is between a successful read and the end of its cycle.
InCycle == \E t \in Threads : pc[t] \in {"push", "trim", "parse", "update", "assign"}

\* The number of reads whose cycle has finished.
Finished == IF InCycle THEN Len(reads) - 1 ELSE Len(reads)

\* C11: a snapshot the UI thread can observe is the initial empty list or the
\* whole decode of one finished read cycle.
C11_WholeSnapshots ==
    lock = UiThread =>
        \/ satellites = <<>>
        \/ \E k \in 1..Finished :
             satellites = DecodeCycle(FromUtf8Lossy(reads[k]))

\* The UI thread holds the lock while a per-cycle list is partly built, and
\* does not see it.
C11_Witness ==
    /\ lock = UiThread
    /\ \E t \in Threads :
         /\ pc[t] = "push"
         /\ local_satellites[t] # <<>>
         /\ satellites # local_satellites[t]

\* The lifecycle state of an ingestion thread.
Life(p) ==
    CASE p = "unspawned" -> "Idle"
      [] p = "open" -> "Opening"
      [] p = "done" -> "Stopped"
      [] OTHER -> "Streaming"

LifeSteps ==
    { <<"Idle", "Idle">>, <<"Idle", "Opening">>,
      <<"Opening", "Opening">>, <<"Opening", "Streaming">>, <<"Opening", "Stopped">>,
      <<"Streaming", "Streaming">>, <<"Streaming", "Stopped">>,
      <<"Stopped", "Stopped">> }

\* C12: a loop moves Idle -> Opening -> Streaming -> {Streaming, Stopped},
\* or Opening -> Stopped when the open fails; it leaves Streaming on a read
\* that returns an error and on nothing else; once Stopped it stays so, and
\* nothing is read, logged, published or reopened any more.
C12_Lifecycle ==
    [][\A t \in Threads :
         LET a == Life(pc[t])
             b == Life(pc'[t])
         IN  /\ <<a, b>> \in LifeSteps
             /\ (a = "Opening" /\ b = "Stopped") => port'[t] = "Err"
             /\ (a = "Opening" /\ b = "Streaming") => port'[t] = "Ok"
             /\ (a = "Streaming" /\ b = "Stopped") =>
                    (pc[t] = "read" /\ reads' = reads /\ wire' = wire)
             /\ (pc[t] = "read" /\ pc'[t] # "read" /\ reads' = reads) =>
                    b = "Stopped"
             /\ a = "Stopped" =>
                    /\ reads' = reads
                    /\ wire' = wire
                    /\ nmea_log' = nmea_log
                    /\ satellites' = satellites
                    /\ port' = port]_vars

\* The loop has stopped on a failed read while the device still has bytes to
\* deliver and the UI thread is inside a frame.
C12_Witness ==
    \E t \in Threads :
        /\ pc[t] = "done"
        /\ port[t] = "Ok"
        /\ reads # <<>>
        /\ wire # <<>>
        /\ ui # "idle"

\* A step of the UI thread, and a step of an ingestion thread.
UiStep == ui' # ui
IngestionStep == \E t \in Threads : pc[t] # "unspawned" /\ pc'[t] # pc[t]

\* C13, as claimed: every change to the snapshot, the log or is_reading is
\* made by a step of the ingestion loop, and no step of the UI thread changes
\* any of them.
C13_LoopSoleWriter ==
    [][(satellites' # satellites \/ nmea_log' # nmea_log \/ is_reading' # is_reading)
          => (IngestionStep /\ ~UiStep)]_vars

\* C13, amended: the snapshot and the log are changed by steps of the
\* ingestion loop only; is_reading is changed by the UI thread only, which
\* sets it at the end of the frame that spawned a loop, and no step of the
\* ingestion loop changes it.
C13_WritersByField ==
    [][/\ (satellites' # satellites \/ nmea_log' # nmea_log)
            => (IngestionStep /\ ~UiStep)
       /\ is_reading' # is_reading
            => (UiStep /\ ~IngestionStep /\ ui = "spawned" /\ is_reading')]_vars

\* The UI thread is inside a frame, after it set is_reading and after the
\* loop logged lines and published satellites.
C13_Witness ==
    /\ ui \in {"render", "refused"}
    /\ is_reading
    /\ nmea_log # <<>>
    /\ satellites # <<>>

\* C14, as claimed: once the loop has stopped, or once a port other than the
\* session's is selected, the log and the snapshot are empty and is_reading
\* is false.
C14_ResetOnEnd ==
    \A t \in Threads :
        (pc[t] = "done" \/ (pc[t] # "unspawned" /\ selected_port # port_name[t]))
            => (nmea_log = <<>> /\ satellites = <<>> /\ ~is_reading)

\* C14, amended: the log, the snapshot and is_reading are empty and false
\* until a loop is started, and nothing ever resets them: the step in which
\* the loop stops and the step in which another port is selected leave all
\* three as they were.
C14_NeverReset ==
    [][/\ (\A t \in Threads : pc[t] = "unspawned")
            => (nmea_log = <<>> /\ satellites = <<>> /\ ~is_reading)
       /\ ((\E t \in Threads : pc[t] # "done" /\ pc'[t] = "done")
             \/ selected_port' # selected_port)
            => (/\ nmea_log' = nmea_log
                /\ satellites' = satellites
                /\ is_reading' = is_reading)]_vars

\* The loop has stopped, another port than the session's is selected, and the
\* log, the snapshot and the flag are as the session left them.
C14_Witness ==
    \E t \in Threads :
        /\ pc[t] = "done"
        /\ port[t] = "Ok"
        /\ selected_port \in Ports
        /\ selected_port # port_name[t]
        /\ nmea_log # <<>>
        /\ satellites # <<>>
        /\ is_reading

\* C15: a loop leaves Streaming by a read that returns an error and by
\* nothing else, no step of the UI thread among them; and under fair
\* scheduling a streaming loop whose device has nothing more to deliver, so
\* that its next read returns an error, reaches Stopped.
C15_StopsOnReadErrorOnly ==
    /\ [][\A t \in Threads :
            (Life(pc[t]) = "Streaming" /\ Life(pc'[t]) # "Streaming")
                => (pc[t] = "read" /\ pc'[t] = "done" /\ ~UiStep)]_vars
    /\ \A t \in Threads :
         (Life(pc[t]) = "Streaming" /\ wire = <<>>) ~> (pc[t] = "done")

\* The loop has stopped after streaming all the device had, with a port other
\* than its own selected meanwhile.
C15_Witness ==
    \E t \in Threads :
        /\ pc[t] = "done"
        /\ port[t] = "Ok"
        /\ wire = <<>>
        /\ reads # <<>>
        /\ selected_port # port_name[t]

\* C16: a loop is spawned only by a start made with a port selected and
\* is_reading false; a start made with no port selected or with is_reading
\* true spawns nothing and leaves is_reading, the log and the snapshot as
\* they were, in the handler and in the rest of its frame.
C16_StartGuard ==
    [][/\ (\E t \in Threads : pc[t] = "unspawned" /\ pc'[t] # "unspawned")
            => (ui = "idle" /\ ui' = "spawned")
       /\ (ui = "idle" /\ ui' = "spawned")
            => /\ ~is_reading
               /\ selected_port' \in Ports
               /\ \E t \in Threads :
                    /\ pc[t] = "unspawned"
                    /\ pc'[t] = "open"
                    /\ port_name'[t] = selected_port'
       /\ (ui = "idle" /\ ui' = "refused")
            => (is_reading \/ selected_port' = NoPort)
       /\ ((ui = "idle" /\ ui' = "refused") \/ (ui = "refused" /\ ui' = "idle"))
            => /\ pc' = pc
               /\ is_reading' = is_reading
               /\ nmea_log' = nmea_log
               /\ satellites' = satellites]_vars

\* A start made with no port selected has been refused.
C16_Witness ==
    /\ ui = "refused"
    /\ selected_port = NoPort
    /\ ~is_reading
    /\ \A t \in Threads : pc[t] = "unspawned"

\* The text of l before its first "*".
WithoutChecksum(l) ==
    IF Find(l, "*") = 0 THEN l ELSE SubSeq(l, 1, Find(l, "*") - 1)

\* l has no "*", or a "*" in its last field only.
ChecksumAtEnd(l) ==
    Find(l, "*") = 0
    \/ \A i \in (Find(l, "*") + 1)..Len(l) : l[i] # "," /\ l[i] # "*"

\* C17: a sentence with a checksum suffix decodes to the records of the same
\* sentence without the suffix.
C17_ChecksumIgnored ==
    \A t \in Threads :
        (/\ pc[t] = "update"
         /\ Lines(data[t]) = <<line[t]>>
         /\ ChecksumAtEnd(line[t]))
            => local_satellites[t] = ParseLine(WithoutChecksum(line[t]))

\* C18: is_reading never goes from true to false, and while it is true no
\* loop is spawned.
C18_ReadingMonotone ==
    [][is_reading =>
          /\ is_reading'
          /\ \A t \in Threads : pc[t] = "unspawned" => pc'[t] = "unspawned"]_vars

\* A start with a port selected has been refused although the only loop ever
\* spawned has ended.
C18_Witness ==
    /\ ui = "refused"
    /\ selected_port \in Ports
    /\ is_reading
    /\ Running = {}
    /\ \E t \in Threads : pc[t] = "done"

\* The snapshot published by the last finished cycle.
LastPublished ==
    IF Finished = 0 THEN <<>> ELSE DecodeCycle(FromUtf8Lossy(reads[Finished]))

\* C19: at the end of a cycle the log holds the cycle's lines and the
\* snapshot is their decode; inside a cycle the UI thread, when it holds the
\* lock, sees the snapshot of the cycle before, also once all the lines of
\* the cycle at hand are in the log.
C19_SeparateSections ==
    /\ \A t \in Threads :
         pc[t] = "sleep" => (CycleLogged(t) /\ satellites = DecodeCycle(data[t]))
    /\ \A t \in Threads : pc[t] = "update" => CycleLogged(t)
    /\ (lock = UiThread /\ InCycle) => satellites = LastPublished

\* The UI thread holds the lock between the last append of a cycle and its
\* snapshot replacement: the GSV lines of the cycle are in the log, and the
\* snapshot holds the other records of the cycle before.
C19_Witness ==
    \E t \in Threads :
        /\ lock = UiThread
        /\ pc[t] = "update"
        /\ CycleLogged(t)
        /\ DecodeCycle(data[t]) # <<>>
        /\ satellites # <<>>
        /\ satellites # DecodeCycle(data[t])

\* C20: an ingestion thread holds the lock exactly between a push and its
\* trim and between taking the lock for the snapshot and assigning it, so
\* never in a read, a pause or a parse; the UI thread holds it exactly inside
\* a frame; whoever holds it is not waiting for it; some step is possible in
\* every state, and the UI thread can start a frame whenever it is idle and
\* every loop is in a read or a pause.
C20_LockDiscipline ==
    /\ \A t \in Threads : lock = Thread(t) <=> pc[t] \in {"trim", "assign"}
    /\ lock = UiThread <=> ui # "idle"
    /\ ENABLED Next
    /\ (ui = "idle" /\ \A t \in Threads : pc[t] \in {"unspawned", "open", "read", "sleep", "done"})
         => ENABLED UiUpdate(NoPort, FALSE)

\* The UI thread holds the lock while the loop is in its pause or its read.
C20_Witness ==
    /\ lock = UiThread
    /\ \E t \in Threads : pc[t] \in {"read", "sleep"} /\ port[t] = "Ok" /\ reads # <<>>

====
